---------------------------- MODULE Spec2Model ----------------------------
(***************************************************************************)
(* Corporate Chronicles (AI-Company-Analyzer): the query service           *)
(* (extractJson, fetchCompanyData), the conversational session             *)
(* (CompanyChatSession.sendMessage), and the two React components that     *)
(* own the state (App, ChatWindow).                                        *)
(*                                                                         *)
(* Two specifications:                                                     *)
(*   SpecFetch  extractJson and fetchCompanyData as functions of the       *)
(*              upstream response (text, grounding chunks, failure).       *)
(*   Spec       the application: searches, the chat window, chat turns     *)
(*              and the tool loop, one action per handler segment between  *)
(*              two awaits, each followed by React's re-render.            *)
(***************************************************************************)
EXTENDS Integers, Sequences, FiniteSets, TLC

VARIABLES
    \* ---- SpecFetch: one call of fetchCompanyData ----
    fText,      \* response.text, as a sequence of tokens
    fChunks,    \* groundingMetadata.groundingChunks
    fPc,        \* "start" | "parsed" | "done"
    fParsed,    \* what extractJson(text) returned
    fFail,      \* whether ai.models.generateContent rejected
    fResult     \* what fetchCompanyData did: a returned record or a thrown error

VARIABLES
    \* ---- Spec: App (App.tsx 9-43) ----
    loading,            \* useState(false)
    data,               \* useState<CompanyData | null>(null)
    error,              \* useState<string | null>(null)
    isChatOpen,         \* useState(false)
    fetchesInFlight,    \* calls of fetchCompanyData not yet settled
    requests,           \* requests made to the generative service so far
    \* ---- Spec: ChatWindow (App.tsx 742-811), mounted while data is not null ----
    mounts,             \* ChatWindow instances mounted so far; the last is the live one
    messages,           \* useState<ChatMessage[]>([])
    isLoading,          \* useState(false)
    chatSessionRef,     \* useRef(null): 0, or the session held (its number)
    sessionSeed,        \* the initialData the held session was constructed with
    currentCompanyRef,  \* useRef("")
    \* ---- Spec: CompanyChatSession (App.tsx 372-451) ----
    sessions,           \* how many CompanyChatSession have been constructed
    turns,              \* the calls of handleSend in flight or settled since the last
                        \* submission, each with its sendMessage; `no` numbers them
    \* ---- Spec: the environment ----
    now                 \* what Date.now() returns: milliseconds, counted from the start

fvars == <<fText, fChunks, fPc, fParsed, fFail, fResult>>

appvars == <<loading, data, error, isChatOpen, fetchesInFlight>>

cwvars == <<mounts, messages, isLoading, chatSessionRef, sessionSeed, currentCompanyRef>>

avars == <<appvars, cwvars, sessions, turns, requests, now>>

vars == <<fvars, avars>>

----------------------------------------------------------------------------
(***************************************************************************)
(* JavaScript values.  null is its own value; an object is the function    *)
(* from the keys it has to their values, so a missing key is a key outside *)
(* the domain and object spread is function override.                      *)
(***************************************************************************)
Null == [kind |-> "null"]

Obj(fields) == [kind |-> "object", fields |-> fields]

NoFields == [k \in {} |-> "undefined"]

\* { ...a, ...b } on the fields of two objects: b's keys win, a's others stay.
Spread(a, b) ==
    [k \in (DOMAIN a) \cup (DOMAIN b) |-> IF k \in DOMAIN b THEN b[k] ELSE a[k]]

----------------------------------------------------------------------------
(***************************************************************************)
(* Response text.  A text is a sequence of tokens, each a piece of the     *)
(* character string:                                                       *)
(*   "fj"     ```json           "f"      ```                               *)
(*   "ws"     JSON whitespace   "prose"  words that are not JSON           *)
(*   "lb"     {                 "rb"     }                                 *)
(*   "nul"    the JSON literal null                                        *)
(*   a member token: one  "key": value  of an object (the separating       *)
(*   commas are left out); "mBrace" and "mFence" are members whose string  *)
(*   value contains a brace and three backticks.                           *)
(*   "mFenceCut" is what is left of "mFence" when the text is cut at its   *)
(*   backticks:  "summary":"a   (an unterminated string).                  *)
(***************************************************************************)
TimelineA == << [title |-> "founded", category |-> "founding"] >>

StructureA == [name |-> "Acme", role |-> "root"]

MemberKey(tok) ==
    CASE tok = "mNameA"  -> "companyName"
      [] tok = "mNameB"  -> "companyName"
      [] tok = "mNameE"  -> "companyName"
      [] tok = "mSum"    -> "summary"
      [] tok = "mBrace"  -> "summary"
      [] tok = "mFence"  -> "summary"
      [] tok = "mTl"     -> "timeline"
      [] tok = "mStruct" -> "structure"
      [] tok = "mSrc"    -> "sources"

MemberValue(tok) ==
    CASE tok = "mNameA"  -> "Acme"
      [] tok = "mNameB"  -> "Globex"
      [] tok = "mNameE"  -> ""
      [] tok = "mSum"    -> "a summary"
      [] tok = "mBrace"  -> "a}b"
      [] tok = "mFence"  -> "a(3 backticks)b"
      [] tok = "mTl"     -> TimelineA
      [] tok = "mStruct" -> StructureA
      [] tok = "mSrc"    -> << [title |-> "made up", uri |-> "z"] >>

MemberToks ==
    {"mNameA", "mNameB", "mNameE", "mSum", "mBrace", "mFence", "mTl", "mStruct", "mSrc"}

\* String.prototype.trim / the \s* of the regex: drop the whitespace at both ends.
RECURSIVE TrimLeft(_)
TrimLeft(s) ==
    IF s # <<>> /\ Head(s) = "ws" THEN TrimLeft(Tail(s)) ELSE s

RECURSIVE TrimRight(_)
TrimRight(s) ==
    IF s # <<>> /\ s[Len(s)] = "ws" THEN TrimRight(SubSeq(s, 1, Len(s) - 1)) ELSE s

Trim(s) == TrimRight(TrimLeft(s))

\* The object a sequence of member tokens and whitespace denotes; a repeated
\* key keeps its last value, as JSON.parse does.
RECURSIVE MembersOf(_)
MembersOf(s) ==
    IF s = <<>> THEN NoFields
    ELSE LET rest == MembersOf(SubSeq(s, 1, Len(s) - 1))
             tok  == s[Len(s)]
         IN  IF tok = "ws" THEN rest
             ELSE Spread(rest, [k \in {MemberKey(tok)} |-> MemberValue(tok)])

\* JSON.parse: the value, or a SyntaxError (ok = FALSE).
JSONParse(s) ==
    LET t == Trim(s)
    IN  IF t = <<"nul">> THEN [ok |-> TRUE, value |-> Null]
        ELSE IF /\ Len(t) >= 2
                /\ t[1] = "lb"
                /\ t[Len(t)] = "rb"
                /\ \A i \in 2..(Len(t) - 1) : t[i] \in MemberToks \cup {"ws"}
             THEN [ok |-> TRUE, value |-> Obj(MembersOf(SubSeq(t, 2, Len(t) - 1)))]
             ELSE [ok |-> FALSE]

----------------------------------------------------------------------------
(***************************************************************************)
(* extractJson (App.tsx 238-255).                                          *)
(***************************************************************************)
\* The least index of s at or after `from` whose token is in `toks`, or
\* Len(s) + 1 when there is none.
FirstIndex(s, from, toks) ==
    LET hits == {i \in from..Len(s) : s[i] \in toks}
    IN  IF hits = {} THEN Len(s) + 1
        ELSE CHOOSE i \in hits : \A j \in hits : i <= j

AllToks == MemberToks \cup {"fj", "f", "ws", "prose", "lb", "rb", "nul", "mFenceCut"}

\* The tokens whose characters contain three backticks in a row.
BacktickToks == {"f", "fj", "mFence"}

\* text.match(/```json\s*([\s\S]*?)\s*```/): the leftmost ```json; \s* eats the
\* whitespace after it; the lazy group runs up to the first three backticks
\* after that, less the whitespace before them.  No backticks after the tag:
\* no match, here or at any later ```json.
JsonBlockMatch(text) ==
    LET open  == FirstIndex(text, 1, {"fj"})
        start == FirstIndex(text, open + 1, AllToks \ {"ws"})
        close == FirstIndex(text, start, BacktickToks)
    IN  IF open > Len(text) \/ close > Len(text)
        THEN [found |-> FALSE, group |-> <<>>]
        ELSE [found |-> TRUE,
              group |-> IF text[close] = "mFence"
                        THEN SubSeq(text, start, close - 1) \o <<"mFenceCut">>
                        ELSE TrimRight(SubSeq(text, start, close - 1))]

\* text.trim().startsWith('{')
StartsWithBrace(text) == Trim(text) # <<>> /\ Head(Trim(text)) = "lb"

\* JSON.parse inside extractJson's try: a SyntaxError is caught and null returned.
ParseOrNull(s) == IF JSONParse(s).ok THEN JSONParse(s).value ELSE Null

extractJson(text) ==
    LET match == JsonBlockMatch(text)
    IN  IF match.found /\ match.group # <<>>
        THEN ParseOrNull(match.group)
        ELSE IF StartsWithBrace(text)
             THEN ParseOrNull(text)
             ELSE Null

----------------------------------------------------------------------------
(***************************************************************************)
(* fetchCompanyData (App.tsx 257-329).  A grounding chunk has a `web` part *)
(* (title, uri) or has none.                                               *)
(***************************************************************************)
WebChunk(t, u) == [web |-> TRUE, title |-> t, uri |-> u]

OtherChunk == [web |-> FALSE, title |-> "", uri |-> ""]

\* groundingChunks.map(...).filter(s => s !== null)
RECURSIVE SourcesOf(_)
SourcesOf(chunks) ==
    IF chunks = <<>> THEN <<>>
    ELSE LET c == Head(chunks)
         IN  (IF c.web THEN << [title |-> c.title, uri |-> c.uri] >> ELSE <<>>)
             \o SourcesOf(Tail(chunks))

\* Map.prototype.set: an existing key keeps its place and takes the new value,
\* a new key is added at the end.
MapSet(entries, s) ==
    IF \E i \in 1..Len(entries) : entries[i].uri = s.uri
    THEN [i \in 1..Len(entries) |-> IF entries[i].uri = s.uri THEN s ELSE entries[i]]
    ELSE Append(entries, s)

RECURSIVE MapOf(_)
MapOf(sources) ==
    IF sources = <<>> THEN <<>>
    ELSE MapSet(MapOf(SubSeq(sources, 1, Len(sources) - 1)), sources[Len(sources)])

\* A variant that keeps every source.
uniqueSourcesKeepAll(sources) == sources

\* Array.from(new Map(sources.map(s => [s.uri, s])).values())
uniqueSources(sources) == MapOf(sources)

ParseErrorMessage == "Could not parse structured data from the AI response."

UpstreamErrorMessage == "upstream failure"

\* The outcome of one call: the CompanyData returned, or the error thrown.
fetchCompanyData(fail, text, chunks) ==
    IF fail
    THEN [ok |-> FALSE, error |-> UpstreamErrorMessage]
    ELSE LET parsedData == extractJson(text)
         IN  IF parsedData = Null
             THEN [ok |-> FALSE, error |-> ParseErrorMessage]
             ELSE [ok |-> TRUE,
                   value |-> Obj(Spread(parsedData.fields,
                                        [sources |-> uniqueSources(SourcesOf(chunks))]))]

----------------------------------------------------------------------------
(***************************************************************************)
(* App (App.tsx 9-43).  A React state update made in a handler is applied  *)
(* in the order made and rendered before the next event, so every action   *)
(* below is one handler segment (from an event or a settled await up to    *)
(* the next await or the end) followed by the render and its effects.      *)
(***************************************************************************)
Str(s) == [kind |-> "string", value |-> s]

Undefined == "(undefined)"

\* companyData.companyName, undefined when the record has no such key
NameOf(d) ==
    IF "companyName" \in DOMAIN d.fields THEN d.fields["companyName"] ELSE Undefined

\* A variant that merges arrays element-wise: the new timeline is appended to
\* the old one instead of replacing it.
handleDataUpdateMerging(prev, updates) ==
    IF prev = Null THEN Null
    ELSE Obj([k \in (DOMAIN prev.fields) \cup (DOMAIN updates) |->
                IF k \in DOMAIN updates
                THEN IF k = "timeline" /\ k \in DOMAIN prev.fields
                     THEN prev.fields[k] \o updates[k]
                     ELSE updates[k]
                ELSE prev.fields[k]])

\* A variant without the null test: with no current data the partial becomes
\* the data.
handleDataUpdateNoNullTest(prev, updates) ==
    IF prev = Null THEN Obj(updates) ELSE Obj(Spread(prev.fields, updates))

\* setData((prev) => { if (!prev) return null; return { ...prev, ...updates }; })
handleDataUpdate(prev, updates) ==
    IF prev = Null THEN Null ELSE Obj(Spread(prev.fields, updates))

----------------------------------------------------------------------------
(***************************************************************************)
(* The dialogue with the model (ai.chats): what one chat.sendMessage can   *)
(* resolve to.  A response has functionCalls (possibly none) and a text    *)
(* (possibly empty).                                                       *)
(***************************************************************************)
UpdateTool == "update_company_data"

TimelineB ==
    << [title |-> "founded", category |-> "founding"],
       [title |-> "merger", category |-> "acquisition"] >>

TimelineC == << [title |-> "rumour", category |-> "gossip"] >>

StructureB == [name |-> "Holding", role |-> "root"]

Call(name, id, args) == [name |-> name, id |-> id, args |-> args]

PlainReply == [calls |-> <<>>, text |-> "Here is the answer."]

EmptyReply == [calls |-> <<>>, text |-> ""]

OneTimeline ==
    [calls |-> << Call(UpdateTool, "c1", [timeline |-> TimelineB]) >>, text |-> ""]

TwoUpdates ==
    [calls |-> << Call(UpdateTool, "c1", [timeline |-> TimelineB]),
                  Call(UpdateTool, "c2", [timeline |-> TimelineC,
                                          structure |-> StructureB]) >>,
     text |-> ""]

UnknownOnly ==
    [calls |-> << Call("delete_company", "c1", [timeline |-> <<>>]) >>,
     text |-> "Deleting."]

Mixed ==
    [calls |-> << Call("delete_company", "c1", [timeline |-> <<>>]),
                  Call(UpdateTool, "c2", [structure |-> StructureB]),
                  Call("delete_company", "c3", [timeline |-> <<>>]) >>,
     text |-> ""]

Rename ==
    [calls |-> << Call(UpdateTool, "c1", [companyName |-> "Globex"]) >>, text |-> ""]

DialogueResponses ==
    {PlainReply, EmptyReply, OneTimeline, TwoUpdates, UnknownOnly, Mixed, Rename}

NoResponse == [calls |-> <<>>, text |-> "(no response yet)"]

----------------------------------------------------------------------------
(***************************************************************************)
(* CompanyChatSession.sendMessage (App.tsx 398-450), one segment per       *)
(* settled await.  `events` lists the calls a segment makes on its         *)
(* collaborators, in the order it makes them: onUpdate (the mutation       *)
(* callback) and chat.sendMessage with a batch of functionResponses.       *)
(***************************************************************************)
IsUpdateCall(call) == call.name = UpdateTool

OnUpdateEvent(call) ==
    [op |-> "onUpdate", id |-> call.id, args |-> call.args, batch |-> <<>>]

SendEvent(batch) ==
    [op |-> "chat.sendMessage", id |-> "", args |-> NoFields, batch |-> batch]

\* The for loop over functionCalls (413-425): the callbacks it makes...
CallbackEvents(calls) ==
    LET upd == SelectSeq(calls, IsUpdateCall)
    IN  [i \in 1..Len(upd) |-> OnUpdateEvent(upd[i])]

\* ... and the functionResponses it collects.
FunctionResponses(calls) ==
    LET upd == SelectSeq(calls, IsUpdateCall)
    IN  [i \in 1..Len(upd) |->
            [name |-> upd[i].name, id |-> upd[i].id,
             response |-> "success: visualization updated"]]

DefaultReply == "I updated the information."

ErrorReply == "I encountered an error processing your request."

FallbackReply == "Sorry, I had trouble connecting. Please try again."

\* response.text || "I updated the information."
TextOrDefault(text) == IF text = "" THEN DefaultReply ELSE text

\* Variants of sendMessageStep: one that runs the callbacks last to first,
\* one that treats every function call as update_company_data, and one that
\* sends the acknowledgments before it runs the callbacks.
Reverse(seq) == [i \in 1..Len(seq) |-> seq[Len(seq) + 1 - i]]

sendMessageStepReversed(response) ==
    LET functionResponses == FunctionResponses(response.calls)
    IN  IF response.calls # <<>> /\ functionResponses # <<>>
        THEN [returns |-> FALSE,
              events  |-> Reverse(CallbackEvents(response.calls))
                          \o << SendEvent(functionResponses) >>,
              text    |-> ""]
        ELSE [returns |-> TRUE, events |-> <<>>, text |-> TextOrDefault(response.text)]

sendMessageStepAnyName(response) ==
    LET calls == response.calls
        functionResponses ==
            [i \in 1..Len(calls) |->
                [name |-> calls[i].name, id |-> calls[i].id,
                 response |-> "success: visualization updated"]]
    IN  IF calls # <<>>
        THEN [returns |-> FALSE,
              events  |-> [i \in 1..Len(calls) |-> OnUpdateEvent(calls[i])]
                          \o << SendEvent(functionResponses) >>,
              text    |-> ""]
        ELSE [returns |-> TRUE, events |-> <<>>, text |-> TextOrDefault(response.text)]

sendMessageStepAckFirst(response) ==
    LET functionResponses == FunctionResponses(response.calls)
    IN  IF response.calls # <<>> /\ functionResponses # <<>>
        THEN [returns |-> FALSE,
              events  |-> << SendEvent(functionResponses) >>
                          \o CallbackEvents(response.calls),
              text    |-> ""]
        ELSE [returns |-> TRUE, events |-> <<>>, text |-> TextOrDefault(response.text)]

\* A variant whose loop body runs once: after the callbacks of a response it
\* returns instead of acknowledging and awaiting the next response.
sendMessageStepOnce(response) ==
    [returns |-> TRUE,
     events  |-> CallbackEvents(response.calls),
     text    |-> TextOrDefault(response.text)]

\* One pass of the code after a response arrives (408-445): either the loop
\* body runs and sends the acknowledgments (another await), or the function
\* returns.
sendMessageStep(response) ==
    LET functionCalls     == response.calls
        functionResponses == FunctionResponses(functionCalls)
    IN  IF functionCalls # <<>> /\ functionResponses # <<>>
        THEN [returns |-> FALSE,
              events  |-> CallbackEvents(functionCalls)
                          \o << SendEvent(functionResponses) >>,
              text    |-> ""]
        ELSE [returns |-> TRUE,
              events  |-> IF functionCalls # <<>>
                          THEN CallbackEvents(functionCalls) ELSE <<>>,
              text    |-> TextOrDefault(response.text)]

\* The catch block (446-449): the error is logged and a string returned.
sendMessageCatch == [threw |-> FALSE, text |-> ErrorReply]

\* The onUpdate calls of a segment, applied to `data` in order.
RECURSIVE ApplyEvents(_, _)
ApplyEvents(d, evs) ==
    IF evs = <<>> THEN d
    ELSE LET e == Head(evs)
         IN  ApplyEvents(IF e.op = "onUpdate" THEN handleDataUpdate(d, e.args) ELSE d,
                         Tail(evs))

----------------------------------------------------------------------------
(***************************************************************************)
(* ChatWindow (App.tsx 742-811).                                           *)
(***************************************************************************)
\* Number.prototype.toString: the decimal digits of a non-negative integer.
RECURSIVE Digits(_)
Digits(n) == IF n < 10 THEN <<n>> ELSE Digits(n \div 10) \o <<n % 10>>

\* A ChatMessage id: the literal 'init' or the digits of a clock reading.
InitId == [literal |-> "init", digits |-> <<>>]

toString(n) == [literal |-> "", digits |-> Digits(n)]

ModelMessage(id, text) == [id |-> id, role |-> "model", text |-> text]

UserMessage(id, text) == [id |-> id, role |-> "user", text |-> text]

\* `Hi! I've analyzed ${companyData.companyName}. Ask me anything ...`
Greeting(d) ==
    ModelMessage(InitId, <<"Hi! I've analyzed ", NameOf(d), ". Ask me anything">>)

\* The session-init effect (753-768) after a render with companyData = d.
\* `w` is the window's state before it: its messages, refs and the sessions made.
SessionEffect(d, w) ==
    IF NameOf(d) # w.currentCompanyRef
    THEN [messages |-> << Greeting(d) >>,
          chatSessionRef |-> w.sessions + 1,
          sessionSeed |-> d,
          currentCompanyRef |-> NameOf(d),
          sessions |-> w.sessions + 1]
    ELSE w

\* A ChatWindow just mounted, before its effects have run.
FreshWindow(made) ==
    [messages |-> <<>>, chatSessionRef |-> 0, sessionSeed |-> Null,
     currentCompanyRef |-> "", sessions |-> made]

Mounted == data # Null

Window ==
    [messages |-> messages, chatSessionRef |-> chatSessionRef,
     sessionSeed |-> sessionSeed, currentCompanyRef |-> currentCompanyRef,
     sessions |-> sessions]

\* A call of handleSend with its sendMessage, made on the session held
\* (`company` is the companyName of the data that session was seeded with) by
\* the window mounted (`win`).  roundTrips counts the
\* chat.sendMessage calls made, callbacks the onUpdate calls made, acks the
\* batches of functionResponses sent; updateResponses and updateCalls count
\* what the dialogue sent: responses with an update_company_data call, and
\* those calls.
NewTurn(text) ==
    [no |-> requests + 1, session |-> chatSessionRef, win |-> mounts,
     company |-> NameOf(sessionSeed), message |-> text, pc |-> "awaiting", roundTrips |-> 1, callbacks |-> 0,
     acks |-> 0, updateResponses |-> 0, updateCalls |-> 0,
     response |-> NoResponse, events |-> <<>>, failed |-> FALSE,
     threw |-> FALSE, result |-> ""]

CountOp(events, op) == Cardinality({i \in DOMAIN events : events[i].op = op})

HasUpdateCall(resp) == \E i \in DOMAIN resp.calls : resp.calls[i].name = UpdateTool

\* The turn after the segment `step` that handled `resp`.
Advance(turn, resp, step, outcome) ==
    [turn EXCEPT
       !.pc = IF step.returns THEN "done" ELSE "awaiting",
       !.roundTrips = @ + CountOp(step.events, "chat.sendMessage"),
       !.acks = @ + CountOp(step.events, "chat.sendMessage"),
       !.callbacks = @ + CountOp(step.events, "onUpdate"),
       !.updateResponses = @ + (IF HasUpdateCall(resp) THEN 1 ELSE 0),
       !.updateCalls = @ + Len(SelectSeq(resp.calls, IsUpdateCall)),
       !.response = resp,
       !.events = step.events,
       !.result = outcome.text]

InFlight(turn) == turn.pc = "awaiting"

\* What handleSend appends once sendMessage has settled (790-810).
ReplyMessage(outcome) ==
    IF outcome.threw
    THEN ModelMessage(toString(now), <<FallbackReply>>)
    ELSE ModelMessage(toString(now + 1), <<outcome.text>>)

\* The ChatWindow instance that started turn t is still the mounted one.
SameWindow(turn) == Mounted /\ turn.win = mounts

----------------------------------------------------------------------------
(***************************************************************************)
(* Spec: the application.                                                  *)
(***************************************************************************)
\* The requests made to the generative service in one run: generateContent
\* and chat.sendMessage calls together.
MaxRequests == 4

\* The clock readings of one run: 0..MaxClock milliseconds after the start.
MaxClock == 1

Queries == {"", "Acme", "Globex"}

ChatInputs == {"", "Add the merger."}

FullRecord(nameTok) == <<"fj", "ws", "lb", nameTok, "mSum", "mTl", "mStruct", "rb", "ws", "f">>

\* What ai.models.generateContent can settle to.
SearchResponses ==
    { [fail |-> TRUE,  text |-> <<>>, chunks |-> <<>>],
      [fail |-> FALSE, text |-> FullRecord("mNameA"),
       chunks |-> <<WebChunk("t1", "a"), WebChunk("t1", "b"), WebChunk("t2", "a")>>],
      [fail |-> FALSE, text |-> FullRecord("mNameB"), chunks |-> <<>>],
      [fail |-> FALSE, text |-> FullRecord("mNameE"), chunks |-> <<>>],
      [fail |-> FALSE, text |-> <<"prose">>, chunks |-> <<>>] }

NoResult == [ok |-> FALSE, error |-> "not called"]

FetchIdle ==
    /\ fText = <<>>
    /\ fChunks = <<>>
    /\ fPc = "idle"
    /\ fParsed = Null
    /\ fFail = FALSE
    /\ fResult = NoResult

InitApp ==
    /\ loading = FALSE
    /\ data = Null
    /\ error = Null
    /\ isChatOpen = FALSE
    /\ fetchesInFlight = 0
    /\ requests = 0
    /\ mounts = 0
    /\ messages = <<>>
    /\ isLoading = FALSE
    /\ chatSessionRef = 0
    /\ sessionSeed = Null
    /\ currentCompanyRef = ""
    /\ sessions = 0
    /\ turns = {}
    /\ now = 0

Init == FetchIdle /\ InitApp

\* handleSearch up to its await (17-27); the form lets it run only while the
\* input and the button are enabled (98-112).  With data null the ChatWindow
\* is unmounted and its state is gone.
HandleSearch(query) ==
    /\ ~loading
    /\ query # ""
    /\ requests < MaxRequests
    /\ loading' = TRUE
    /\ error' = Null
    /\ data' = Null
    /\ isChatOpen' = FALSE
    /\ fetchesInFlight' = fetchesInFlight + 1
    /\ requests' = requests + 1
    /\ messages' = <<>>
    /\ isLoading' = FALSE
    /\ chatSessionRef' = 0
    /\ sessionSeed' = Null
    /\ currentCompanyRef' = ""
    /\ turns' = {turn \in turns : InFlight(turn)}
    /\ UNCHANGED <<mounts, sessions, fvars, now>>

\* handleSearch after fetchCompanyData resolved (28, 32); data becomes
\* non-null, so a ChatWindow is mounted (218-225) and its effect runs.
SearchSucceeds(resp) ==
    LET out == fetchCompanyData(resp.fail, resp.text, resp.chunks)
    IN  /\ fetchesInFlight > 0
        /\ out.ok
        /\ data' = out.value
        /\ loading' = FALSE
        /\ fetchesInFlight' = fetchesInFlight - 1
        /\ LET fresh == data = Null
               eff == SessionEffect(out.value,
                                    IF fresh THEN FreshWindow(sessions) ELSE Window)
           IN  /\ mounts' = IF fresh THEN mounts + 1 ELSE mounts
               /\ isLoading' = IF fresh THEN FALSE ELSE isLoading
               /\ messages' = eff.messages
               /\ chatSessionRef' = eff.chatSessionRef
               /\ sessionSeed' = eff.sessionSeed
               /\ currentCompanyRef' = eff.currentCompanyRef
               /\ sessions' = eff.sessions
        /\ UNCHANGED <<error, isChatOpen, requests, turns, fvars, now>>

\* handleSearch after fetchCompanyData rejected (29-32).
SearchFails(resp) ==
    LET out == fetchCompanyData(resp.fail, resp.text, resp.chunks)
    IN  /\ fetchesInFlight > 0
        /\ ~out.ok
        /\ error' = Str(out.error)
        /\ loading' = FALSE
        /\ fetchesInFlight' = fetchesInFlight - 1
        /\ UNCHANGED <<data, isChatOpen, requests, cwvars, sessions, turns, fvars, now>>

\* The header button (61-73) and the window's close button (825-830).
ToggleChat ==
    /\ Mounted
    /\ isChatOpen' = ~isChatOpen
    /\ UNCHANGED <<loading, data, error, fetchesInFlight, requests, cwvars,
                   sessions, turns, fvars, now>>

\* A variant of HandleSend whose form is not disabled while isLoading.
HandleSendWhileLoading(input) ==
    /\ Mounted
    /\ isChatOpen
    /\ input # ""
    /\ chatSessionRef # 0
    /\ requests < MaxRequests
    /\ requests' = requests + 1
    /\ messages' = Append(messages, UserMessage(toString(now), <<input>>))
    /\ isLoading' = TRUE
    /\ turns' = {turn \in turns : InFlight(turn)} \cup {NewTurn(input)}
    /\ UNCHANGED <<appvars, mounts, chatSessionRef, sessionSeed, currentCompanyRef,
                   sessions, fvars, now>>

\* handleSend up to its await (775-791); the form exists only while the
\* window is open (813) and is disabled while isLoading (873-877).
HandleSend(input) ==
    /\ Mounted
    /\ isChatOpen
    /\ ~isLoading
    /\ input # ""
    /\ chatSessionRef # 0
    /\ requests < MaxRequests
    /\ requests' = requests + 1
    /\ messages' = Append(messages, UserMessage(toString(now), <<input>>))
    /\ isLoading' = TRUE
    /\ turns' = {turn \in turns : InFlight(turn)} \cup {NewTurn(input)}
    /\ UNCHANGED <<appvars, mounts, chatSessionRef, sessionSeed, currentCompanyRef,
                   sessions, fvars, now>>

\* A response with update_company_data calls arrives: the callbacks run, the
\* acknowledgments are sent, and sendMessage awaits again (410-439).  The
\* callbacks reach App's data, whose re-render runs ChatWindow's effect.
ToolRound(turn, resp) ==
    LET step == sendMessageStep(resp)
        d    == ApplyEvents(data, step.events)
        eff  == IF d = Null THEN Window ELSE SessionEffect(d, Window)
    IN  /\ turn.pc = "awaiting"
        /\ ~step.returns
        /\ requests < MaxRequests
        /\ requests' = requests + 1
        /\ data' = d
        /\ messages' = eff.messages
        /\ chatSessionRef' = eff.chatSessionRef
        /\ sessionSeed' = eff.sessionSeed
        /\ currentCompanyRef' = eff.currentCompanyRef
        /\ sessions' = eff.sessions
        /\ turns' = (turns \ {turn})
                    \cup {Advance(turn, resp, step, [threw |-> FALSE, text |-> ""])}
        /\ UNCHANGED <<loading, error, isChatOpen, fetchesInFlight, mounts,
                       isLoading, fvars, now>>

\* A response without update_company_data calls arrives: sendMessage returns
\* (410, 440-445) and handleSend appends the reply (793-799, 808-810).
TurnReturns(turn, resp) ==
    LET step == sendMessageStep(resp)
        outcome == [threw |-> FALSE, text |-> step.text]
        d    == ApplyEvents(data, step.events)
        eff  == IF d = Null THEN Window ELSE SessionEffect(d, Window)
        same == d # Null /\ turn.win = mounts
    IN  /\ turn.pc = "awaiting"
        /\ step.returns
        /\ data' = d
        /\ chatSessionRef' = eff.chatSessionRef
        /\ sessionSeed' = eff.sessionSeed
        /\ currentCompanyRef' = eff.currentCompanyRef
        /\ sessions' = eff.sessions
        /\ turns' = (turns \ {turn}) \cup {Advance(turn, resp, step, outcome)}
        /\ messages' = IF same
                       THEN Append(eff.messages, ReplyMessage(outcome))
                       ELSE eff.messages
        /\ isLoading' = IF same THEN FALSE ELSE isLoading
        /\ UNCHANGED <<loading, error, isChatOpen, fetchesInFlight, mounts,
                       requests, fvars, now>>

\* A variant of DialogueFails that rolls back: the data is reset to what the
\* session was seeded with.
DialogueFailsRollback(turn) ==
    LET outcome == sendMessageCatch
    IN  /\ turn.pc = "awaiting"
        /\ turns' = (turns \ {turn})
                    \cup {[turn EXCEPT !.pc = "done", !.failed = TRUE,
                                       !.threw = outcome.threw, !.events = <<>>,
                                       !.result = outcome.text]}
        /\ messages' = IF SameWindow(turn)
                       THEN Append(messages, ReplyMessage(outcome)) ELSE messages
        /\ isLoading' = IF SameWindow(turn) THEN FALSE ELSE isLoading
        /\ data' = IF SameWindow(turn) /\ turn.callbacks > 0 THEN sessionSeed ELSE data
        /\ UNCHANGED <<loading, error, isChatOpen, fetchesInFlight, mounts,
                       chatSessionRef, sessionSeed, currentCompanyRef, sessions,
                       requests, fvars, now>>

\* chat.sendMessage rejects: the catch block of sendMessage (446-449), then
\* handleSend as after any settled sendMessage.
DialogueFails(turn) ==
    LET outcome == sendMessageCatch
    IN  /\ turn.pc = "awaiting"
        /\ turns' = (turns \ {turn})
                    \cup {[turn EXCEPT !.pc = "done", !.failed = TRUE,
                                       !.threw = outcome.threw, !.events = <<>>,
                                       !.result = outcome.text]}
        /\ messages' = IF SameWindow(turn)
                       THEN Append(messages, ReplyMessage(outcome)) ELSE messages
        /\ isLoading' = IF SameWindow(turn) THEN FALSE ELSE isLoading
        /\ UNCHANGED <<appvars, mounts, chatSessionRef, sessionSeed,
                       currentCompanyRef, sessions, requests, fvars, now>>

\* Time passes.
Tick ==
    /\ now < MaxClock
    /\ now' = now + 1
    /\ UNCHANGED <<appvars, cwvars, sessions, turns, requests, fvars>>

Next ==
    \/ Tick
    \/ \E query \in Queries : HandleSearch(query)
    \/ \E resp \in SearchResponses : SearchSucceeds(resp)
    \/ \E resp \in SearchResponses : SearchFails(resp)
    \/ ToggleChat
    \/ \E input \in ChatInputs : HandleSend(input)
    \/ \E turn \in turns, resp \in DialogueResponses : ToolRound(turn, resp)
    \/ \E turn \in turns, resp \in DialogueResponses : TurnReturns(turn, resp)
    \/ \E turn \in turns : DialogueFails(turn)

Spec == Init /\ [][Next]_vars

----------------------------------------------------------------------------
(***************************************************************************)
(* SpecFetch: every response text of up to MaxTextLen tokens with a few    *)
(* chunk lists, and a few texts with every chunk list of up to MaxChunks.  *)
(***************************************************************************)
MaxTextLen == 5

MaxChunks == 3

SeqsUpTo(S, n) == UNION {[1..k -> S] : k \in 0..n}

TextAlphabet ==
    {"fj", "f", "ws", "prose", "lb", "rb", "nul", "mNameA", "mBrace", "mFence"}

ChunkAlphabet ==
    {OtherChunk, WebChunk("t1", "a"), WebChunk("t2", "a"), WebChunk("t1", "b")}

SampleTexts ==
    { <<"fj", "ws", "lb", "mNameA", "mSum", "mTl", "mStruct", "rb", "ws", "f">>,
      <<"prose", "fj", "lb", "mSum", "mSrc", "rb", "f", "prose">>,
      <<"lb", "mNameB", "mBrace", "rb">>,
      <<"prose">> }

SampleChunks == { <<WebChunk("t1", "a"), OtherChunk>> }

InitFetch ==
    /\ \/ fText \in SeqsUpTo(TextAlphabet, MaxTextLen) /\ fChunks \in SampleChunks
       \/ fText \in SampleTexts /\ fChunks \in SeqsUpTo(ChunkAlphabet, MaxChunks)
    /\ fPc = "start"
    /\ fParsed = Null
    /\ fFail = FALSE
    /\ fResult = NoResult
    /\ InitApp

RunExtractJson ==
    /\ fPc = "start"
    /\ fParsed' = extractJson(fText)
    /\ fPc' = "parsed"
    /\ UNCHANGED <<fText, fChunks, fFail, fResult, avars>>

RunFetchCompanyData ==
    /\ fPc = "parsed"
    /\ \E fail \in BOOLEAN :
          /\ fFail' = fail
          /\ fResult' = fetchCompanyData(fail, fText, fChunks)
    /\ fPc' = "done"
    /\ UNCHANGED <<fText, fChunks, fParsed, avars>>

NextFetch == RunExtractJson \/ RunFetchCompanyData

SpecFetch == InitFetch /\ [][NextFetch]_vars

----------------------------------------------------------------------------
(***************************************************************************)
(* Properties of the tool loop (Spec).                                     *)
(***************************************************************************)
UpdateCallsOf(resp) == SelectSeq(resp.calls, IsUpdateCall)

IsOnUpdate(e) == e.op = "onUpdate"

IsSend(e) == e.op = "chat.sendMessage"

\* The segment that handled turn.response called onUpdate once per
\* update_company_data call, with that call's arguments, in the order of the
\* calls, and sent one batch of acknowledgments if there was such a call.
SegmentFollowsCalls(turn) ==
    LET upd == UpdateCallsOf(turn.response)
        cbs == SelectSeq(turn.events, IsOnUpdate)
        snd == SelectSeq(turn.events, IsSend)
    IN  /\ Len(cbs) = Len(upd)
        /\ \A i \in DOMAIN upd : cbs[i].id = upd[i].id /\ cbs[i].args = upd[i].args
        /\ Len(snd) = IF upd # <<>> THEN 1 ELSE 0

\* A turn that ended on a response without function calls, all upstream calls
\* having succeeded.
EndedOnPlainResponse(turn) ==
    turn.pc = "done" /\ ~turn.failed /\ turn.response.calls = <<>>

TurnCounts(turn) ==
    /\ turn.roundTrips = turn.updateResponses + 1
    /\ turn.callbacks = turn.updateCalls
    /\ turn.acks = turn.updateResponses

\* C1 (as amended): a turn whose first n responses each hold an
\* update_company_data call and whose next response holds no function call
\* makes n + 1 round-trips, calls the mutation callback once per
\* update_company_data call with that call's arguments in the order received,
\* sends one acknowledgment batch per such response, and returns the final
\* response's text, or "I updated the information." when that text is empty.
C1_ToolLoopAmended ==
    \A turn \in turns :
        /\ (~turn.failed /\ turn.response # NoResponse) => SegmentFollowsCalls(turn)
        /\ EndedOnPlainResponse(turn) =>
              /\ TurnCounts(turn)
              /\ turn.result = IF turn.response.text = ""
                               THEN "I updated the information."
                               ELSE turn.response.text

\* C1 as stated: the same, with the turn returning the text of the final
\* response in every case.
C1_ToolLoopOriginal ==
    \A turn \in turns :
        /\ (~turn.failed /\ turn.response # NoResponse) => SegmentFollowsCalls(turn)
        /\ EndedOnPlainResponse(turn) =>
              /\ TurnCounts(turn)
              /\ turn.result = turn.response.text

\* A turn with n = 2: two responses with update calls (three calls in all),
\* then a plain response.
C1_Witness ==
    \E turn \in turns :
        /\ EndedOnPlainResponse(turn)
        /\ turn.updateResponses = 2
        /\ turn.updateCalls = 3
        /\ turn.roundTrips = 3

\* C2: a response whose function calls name no declared tool makes no callback,
\* sends no acknowledgment and ends the turn; of a response mixing names, only
\* the update_company_data calls get a callback and an acknowledgment.
C2_UnknownTool ==
    \A turn \in turns :
        (~turn.failed /\ turn.response # NoResponse /\ turn.response.calls # <<>>) =>
            LET upd == UpdateCallsOf(turn.response)
                cbs == SelectSeq(turn.events, IsOnUpdate)
                snd == SelectSeq(turn.events, IsSend)
            IN  /\ upd = <<>> => turn.events = <<>> /\ turn.pc = "done"
                /\ Len(cbs) = Len(upd)
                /\ \A i \in DOMAIN cbs : cbs[i].id = upd[i].id
                /\ \A k \in DOMAIN snd :
                      /\ Len(snd[k].batch) = Len(upd)
                      /\ \A i \in DOMAIN upd :
                            /\ snd[k].batch[i].id = upd[i].id
                            /\ snd[k].batch[i].name = UpdateTool

\* A turn that ended on a response naming only an undeclared tool, after a
\* response that mixed names.
C2_Witness ==
    \E turn \in turns :
        /\ turn.response = UnknownOnly
        /\ turn.pc = "done"
        /\ turn.updateResponses = 1
        /\ turn.callbacks = 1

\* C3: within a segment every acknowledgment is sent after the callback of the
\* call it acknowledges has been made.
C3_CallbackBeforeAck ==
    \A turn \in turns :
        \A j \in DOMAIN turn.events :
            turn.events[j].op = "chat.sendMessage" =>
                \A k \in DOMAIN turn.events[j].batch :
                    \E i \in 1..(j - 1) :
                        /\ turn.events[i].op = "onUpdate"
                        /\ turn.events[i].id = turn.events[j].batch[k].id

\* A segment with two callbacks and the acknowledgment of both.
C3_Witness ==
    \E turn \in turns :
        /\ turn.response = TwoUpdates
        /\ turn.pc = "awaiting"
        /\ Len(turn.events) = 3
        /\ Len(turn.events[3].batch) = 2

\* C4: when the dialogue call fails, sendMessage fails to its caller and the
\* chat window appends its "trouble connecting" message.
C4_FailurePropagates ==
    \A turn \in turns :
        (turn.pc = "done" /\ turn.failed) =>
            /\ turn.threw
            /\ (SameWindow(turn) /\ ~isLoading) =>
                  messages[Len(messages)].text = <<FallbackReply>>

\* C5: a chat update with only `timeline` (only `structure`) replaces that
\* field by the value supplied and leaves every other field as it was; with
\* no current data the update is dropped and data stays null.
C5_WholeFieldReplacement ==
    [][\A turn \in turns, next \in turns' :
          (next.no = turn.no /\ next.callbacks = turn.callbacks + 1) =>
              LET args == UpdateCallsOf(next.response)[1].args
              IN  \A key \in {"timeline", "structure"} :
                      DOMAIN args = {key} =>
                          IF data = Null
                          THEN data' = Null
                          ELSE /\ data' # Null
                               /\ DOMAIN data'.fields = DOMAIN data.fields \cup {key}
                               /\ data'.fields[key] = args[key]
                               /\ \A k \in DOMAIN data.fields \ {key} :
                                     data'.fields[k] = data.fields[k]
      ]_vars

\* A timeline-only update has been applied to a record fetched with its
\* structure and two sources.
C5_Witness ==
    /\ \E turn \in turns : turn.response = OneTimeline /\ turn.callbacks = 1
    /\ data # Null
    /\ data.fields["timeline"] = TimelineB
    /\ data.fields["structure"] = StructureA
    /\ Len(data.fields["sources"]) = 2

\* C6: when a query succeeds after an earlier one did, the chat log is the
\* fresh greeting alone and the session held is a new one, constructed with
\* the data just fetched.
C6_CompanySwitch ==
    [][(mounts >= 1 /\ data = Null /\ data' # Null) =>
          /\ messages' = << Greeting(data') >>
          /\ chatSessionRef' > sessions
          /\ sessionSeed' = data'
      ]_vars

----------------------------------------------------------------------------
(***************************************************************************)
(* Properties of the query service (SpecFetch).                            *)
(***************************************************************************)
FetchReturned == fPc = "done" /\ fResult.ok

WebChunks == {i \in DOMAIN fChunks : fChunks[i].web}

\* The first citation with uri u.
FirstWith(u) ==
    CHOOSE i \in WebChunks :
        fChunks[i].uri = u /\ \A j \in WebChunks : fChunks[j].uri = u => i <= j

\* C7: the sources returned hold each cited uri once, in the order in which
\* the uris first appear among the citations, and nothing else, whatever
\* `sources` the parsed record had.
C7_SourcesDeduplicated ==
    FetchReturned =>
        LET src == fResult.value.fields["sources"]
        IN  /\ \A i, j \in DOMAIN src : i # j => src[i].uri # src[j].uri
            /\ {src[i].uri : i \in DOMAIN src} = {fChunks[i].uri : i \in WebChunks}
            /\ \A i, j \in DOMAIN src :
                  i < j => FirstWith(src[i].uri) < FirstWith(src[j].uri)

\* Citations a, b, a and a parsed record that had a `sources` of its own.
C7_Witness ==
    /\ FetchReturned
    /\ fChunks = <<WebChunk("t1", "a"), WebChunk("t1", "b"), WebChunk("t2", "a")>>
    /\ "sources" \in DOMAIN fParsed.fields

\* C8: the source kept for a uri is its first citation, title included.
C8_FirstOccurrenceWins ==
    FetchReturned =>
        LET src == fResult.value.fields["sources"]
        IN  \A i \in DOMAIN src : src[i].title = fChunks[FirstWith(src[i].uri)].title

\* The first ```json of a text, the first backticks after it that are not
\* inside a string, and what lies between.
BlockOpen(text) == FirstIndex(text, 1, {"fj"})

BlockClose(text) == FirstIndex(text, BlockOpen(text) + 1, {"f", "fj"})

BlockBody(text) == SubSeq(text, BlockOpen(text) + 1, BlockClose(text) - 1)

HasValidBlock(text) ==
    /\ BlockOpen(text) <= Len(text)
    /\ BlockClose(text) <= Len(text)
    /\ JSONParse(BlockBody(text)).ok

\* C9: of a text with a fenced json block that encloses a valid value,
\* extractJson returns that value, whatever surrounds the block and whatever
\* the value's strings contain.
C9_FencedBlockExtracted ==
    (fPc # "start" /\ HasValidBlock(fText)) =>
        fParsed = JSONParse(BlockBody(fText)).value

\* What extractJson parses: the group of the match, else the whole text when
\* it starts with a brace, else nothing.
HasCandidate(text) ==
    \/ JsonBlockMatch(text).found /\ JsonBlockMatch(text).group # <<>>
    \/ StartsWithBrace(text)

Candidate(text) ==
    IF JsonBlockMatch(text).found /\ JsonBlockMatch(text).group # <<>>
    THEN JsonBlockMatch(text).group
    ELSE text

\* C10: extractJson yields null exactly when there is nothing to parse or
\* what it parses is malformed; fetchCompanyData fails exactly when the
\* upstream call fails or extractJson yields null, and otherwise returns the
\* parsed fields as they are, with `sources` set.
C10_UnparseableOutcome ==
    /\ fPc # "start" =>
          (fParsed = Null <=>
              (~HasCandidate(fText) \/ ~JSONParse(Candidate(fText)).ok))
    /\ fPc = "done" =>
          /\ ~fResult.ok <=> (fFail \/ fParsed = Null)
          /\ fResult.ok =>
                /\ DOMAIN fResult.value.fields
                      = DOMAIN fParsed.fields \cup {"sources"}
                /\ \A k \in DOMAIN fParsed.fields \ {"sources"} :
                      fResult.value.fields[k] = fParsed.fields[k]

----------------------------------------------------------------------------
(***************************************************************************)
(* Properties of the application state and the chat log (Spec).            *)
(***************************************************************************)
\* C11: the state never holds an error together with data, data is null
\* while a search is loading, and a search that fails ends with the error set
\* and data null, whatever succeeded before and whatever chat update arrived
\* meanwhile.
C11_ErrorExcludesData ==
    /\ [](/\ ~(error # Null /\ data # Null)
          /\ loading => data = Null)
    /\ [][(\E resp \in SearchResponses : SearchFails(resp)) =>
              (error' # Null /\ data' = Null /\ ~loading')]_vars

\* A search has failed after an earlier one had succeeded, and a chat turn of
\* the earlier company has made its callback and is still in flight.
C11_Witness ==
    /\ error # Null
    /\ data = Null
    /\ ~loading
    /\ mounts >= 1
    /\ \E turn \in turns : InFlight(turn) /\ turn.callbacks >= 1

\* C12: at most one search is in flight, the search control being disabled
\* exactly while one is; at most one chat turn per session is in flight, the
\* send control of the mounted window being disabled exactly while a turn it
\* started is.
C12_OneOutstanding ==
    /\ fetchesInFlight <= 1
    /\ loading <=> fetchesInFlight = 1
    /\ \A t1, t2 \in turns :
          (InFlight(t1) /\ InFlight(t2) /\ t1.session = t2.session) => t1 = t2
    /\ Mounted => (isLoading <=> \E turn \in turns : InFlight(turn) /\ turn.win = mounts)

\* Two turns in flight at once, on the sessions of two companies, the send
\* control of the mounted window disabled and the search control enabled.
C12_Witness ==
    /\ \E t1, t2 \in turns : InFlight(t1) /\ InFlight(t2) /\ t1.session # t2.session
    /\ isLoading
    /\ ~loading

IsPrefix(s, t) == Len(s) <= Len(t) /\ SubSeq(t, 1, Len(s)) = s

\* C13: while one company's window stays mounted the chat log only grows, one
\* message at a time: a send appends the user message, a settled turn appends
\* one model message, and nothing else (a tool-triggered data update
\* included) removes, replaces or reorders an entry.
C13_LogAppendOnly ==
    [][(data # Null /\ data' # Null /\ mounts' = mounts) =>
          /\ IsPrefix(messages, messages')
          /\ Len(messages') <= Len(messages) + 1
          /\ (\E input \in ChatInputs : HandleSend(input)) =>
                /\ Len(messages') = Len(messages) + 1
                /\ messages'[Len(messages')].role = "user"
          /\ \A turn \in turns, next \in turns' :
                (next.no = turn.no /\ InFlight(turn) /\ ~InFlight(next)
                   /\ turn.win = mounts) =>
                    /\ Len(messages') = Len(messages) + 1
                    /\ messages'[Len(messages')].role = "model"
      ]_vars

\* C14: the messages of the chat log have pairwise distinct ids, whatever
\* the clock readings at which they were created.
C14_DistinctIds ==
    \A i, j \in DOMAIN messages : i # j => messages[i].id # messages[j].id

\* TimelineEvent.category (types.ts 6)
Categories == {"founding", "product", "acquisition", "scandal", "general"}

\* C15: every timeline event held in the application's data has a category
\* among the five enumerated ones.
C15_CategoriesValid ==
    (data # Null /\ "timeline" \in DOMAIN data.fields) =>
        \A i \in DOMAIN data.fields["timeline"] :
            data.fields["timeline"][i].category \in Categories

\* C16: a turn has settled only on a response without update_company_data
\* call or on a failure; every response with such a call, however many came
\* before, makes its callbacks and another round-trip and leaves the turn in
\* flight, and the window that started a turn in flight keeps its send
\* control disabled.
C16_LoopUnbounded ==
    /\ [](\A turn \in turns :
             /\ ~InFlight(turn) => (turn.failed \/ ~HasUpdateCall(turn.response))
             /\ (InFlight(turn) /\ SameWindow(turn)) => isLoading)
    /\ [][\A turn \in turns, next \in turns' :
             (next.no = turn.no /\ InFlight(turn) /\ next # turn /\ ~next.failed) =>
                 /\ InFlight(next) <=> HasUpdateCall(next.response)
                 /\ HasUpdateCall(next.response) =>
                       /\ next.callbacks > turn.callbacks
                       /\ next.roundTrips = turn.roundTrips + 1
         ]_vars

\* A turn still in flight after two responses with update calls, its window
\* still disabled.
C16_Witness ==
    \E turn \in turns :
        /\ InFlight(turn)
        /\ turn.updateResponses = 2
        /\ turn.roundTrips = 3
        /\ SameWindow(turn)
        /\ isLoading

SameField(d, e, key) ==
    /\ key \in DOMAIN d.fields <=> key \in DOMAIN e.fields
    /\ key \in DOMAIN d.fields => d.fields[key] = e.fields[key]

\* C17: a callback made by a turn of a session seeded with one company, in a
\* window since replaced, leaves the timeline and the structure of the data
\* fetched later for another company as they are.
C17_NoCrossCompanyUpdate ==
    [][\A turn \in turns, next \in turns' :
          (next.no = turn.no /\ next.callbacks > turn.callbacks
             /\ turn.win # mounts /\ data # Null /\ NameOf(data) # turn.company) =>
              /\ data' # Null
              /\ SameField(data, data', "timeline")
              /\ SameField(data, data', "structure")
      ]_vars

\* C18: when a call of the dialogue fails, the data stays as the turn's
\* earlier callbacks left it, the turn makes no further callback and ends, one
\* error reply is appended by the window that started it, and the session
\* held stays the same.
C18_NoRollback ==
    [][\A turn \in turns, next \in turns' :
          (next.no = turn.no /\ InFlight(turn) /\ next.failed) =>
              /\ data' = data
              /\ next.callbacks = turn.callbacks
              /\ ~InFlight(next)
              /\ chatSessionRef' = chatSessionRef
              /\ sessionSeed' = sessionSeed
              /\ sessions' = sessions
              /\ IF SameWindow(turn)
                 THEN /\ Len(messages') = Len(messages) + 1
                      /\ IsPrefix(messages, messages')
                      /\ messages'[Len(messages')].role = "model"
                      /\ messages'[Len(messages')].text
                            \in {<<ErrorReply>>, <<FallbackReply>>}
                      /\ ~isLoading'
                 ELSE messages' = messages
      ]_vars

\* A turn has failed after its callback replaced the timeline: the timeline
\* is still the replaced one and the error reply is the last message.
C18_Witness ==
    /\ \E turn \in turns :
          /\ turn.failed
          /\ turn.callbacks = 1
          /\ turn.updateResponses = 1
          /\ SameWindow(turn)
          /\ turn.session = chatSessionRef
    /\ data # Null
    /\ data.fields["timeline"] = TimelineB
    /\ messages[Len(messages)].text = <<ErrorReply>>
    /\ ~isLoading

============================================================================
